---- MODULE Spec2Model ----
(***************************************************************************)
(* Authorization and progressive-rollout control plane of Logiq.           *)
(*                                                                         *)
(*   utils/rollout.py               StoatRolloutManager                    *)
(*   utils/permissions.py           PermissionChecker                      *)
(*   adapters/stoat_permissions.py  RoleHierarchy                          *)
(*   database/db_manager.py         DatabaseManager (members, guilds,      *)
(*                                  roles)                                 *)
(*                                                                         *)
(*   utils/feature_flags.py         StoatFeatureFlags                      *)
(*                                                                         *)
(* RolloutSpec explores the registry under the management operations.      *)
(* PermSpec explores the membership store the evaluators read.             *)
(* FlagsSpec explores the feature flags beside the registry's percentages. *)
(* EvalSpec interleaves evaluations with management.                       *)
(***************************************************************************)
EXTENDS Integers, Sequences, FiniteSets, TLC

VARIABLES
    hash_seed,            \* the interpreter's string-hash key, fixed at process start
    phase_config,         \* StoatRolloutManager._phase_config
    rollout_percentages,  \* StoatRolloutManager._rollout_percentages
    whitelist,            \* StoatRolloutManager._whitelist
    blacklist,            \* StoatRolloutManager._blacklist
    members,              \* the members collection of one guild, by user_id
    guild,                \* the guilds collection, by guild_id
    roles,                \* the roles collection of that guild, by role_id
    flags,                \* StoatFeatureFlags.flags
    observed              \* the decision last observed since the registries were managed

rollout_vars == <<hash_seed, phase_config, rollout_percentages, whitelist, blacklist>>
registry == <<phase_config, rollout_percentages, whitelist, blacklist>>
db_vars == <<members, guild, roles>>
flag_vars == <<flags, observed>>
vars == <<hash_seed, phase_config, rollout_percentages, whitelist, blacklist,
          members, guild, roles, flags, observed>>

----------------------------------------------------------------------------
(* Bounds. Tenants are numbered, as are the hash keys a process may draw   *)
(* and the positions a role may have. Users, roles and features are named. *)

MaxTenants == 1
MaxSeed == 1
MaxPos == 1
MaxPermList == 2

Tenants == 1..MaxTenants
Seeds == 0..MaxSeed

\* Two of the nine default features: one stable without a percentage entry,
\* one gradual at 50.
Features == {"moderation", "economy"}

\* The features whose whitelist is edited; every phase is set on each of them.
WhitelistFeatures == {"economy"}

\* Arguments offered to set_rollout_percentage (below, inside and above 0..100).
PctInputs == {-10, 60, 150}

\* server_id = None, the default of is_enabled's second parameter.
NoServer == 0
ServerArgs == Tenants \cup {NoServer}

\* No decision has been observed since the registries were last managed.
NoObservation ==
    [evaluator |-> "none", feature |-> "none", server_id |-> NoServer, result |-> FALSE]

----------------------------------------------------------------------------
(* utils/rollout.py *)

INTERNAL == "internal"
BETA == "beta"
GRADUAL == "gradual"
STABLE == "stable"
DEPRECATED == "deprecated"

RolloutPhase == {INTERNAL, BETA, GRADUAL, STABLE, DEPRECATED}

\* A dict is a function whose domain is its set of keys.
\* dict.get(key, default)
DictGet(d, key, default) == IF key \in DOMAIN d THEN d[key] ELSE default

\* d[key] = value
DictSet(d, key, value) ==
    [k \in DOMAIN d \cup {key} |-> IF k = key THEN value ELSE d[k]]

\* d.update(other)
DictUpdate(d, other) ==
    [k \in DOMAIN d \cup DOMAIN other |-> IF k \in DOMAIN other THEN other[k] ELSE d[k]]

Max(a, b) == IF a >= b THEN a ELSE b
Min(a, b) == IF a <= b THEN a ELSE b

FeatureCode(f) == CASE f = "moderation" -> 7
                    [] f = "economy" -> 3
                    [] OTHER -> 5

\* hash(f"{server_id}_{feature}"): the built-in str hash is keyed by a value
\* the interpreter draws at start (PYTHONHASHSEED unset), so its result is a
\* signed integer that depends on the process as well as on the string.
PyStrHash(seed, server_id, feature) ==
    ((server_id * 37 + FeatureCode(feature) * 59 + seed * 71) % 256) - 128

\* The remainder taken with the sign of the dividend, as a truncating '%' does.
RolloutHashTruncated(seed, server_id, feature) ==
    LET h == PyStrHash(seed, server_id, feature) IN
    IF h >= 0 THEN h % 100 ELSE 0 - ((0 - h) % 100)

\* hash(...) % 100; Python's % takes the sign of the divisor, as TLA+'s does.
RolloutHash(seed, server_id, feature) == PyStrHash(seed, server_id, feature) % 100

\* A bucketing that draws a new sample at every percentage.
CanUseResampled(seed, pc, pct, wl, bl, feature, server_id) ==
    LET phase == DictGet(pc, feature, INTERNAL) IN
    IF phase = STABLE THEN TRUE
    ELSE IF phase = DEPRECATED THEN FALSE
    ELSE IF server_id \in bl[feature] THEN FALSE
    ELSE IF phase = BETA THEN server_id \in wl[feature]
    ELSE IF phase = GRADUAL
         THEN RolloutHash(seed + DictGet(pct, feature, 0), server_id, feature)
                  < DictGet(pct, feature, 0)
    ELSE FALSE

\* can_use_feature against an explicit registry and hash key.
CanUse(seed, pc, pct, wl, bl, feature, server_id) ==
    LET phase == DictGet(pc, feature, INTERNAL) IN
    IF phase = STABLE THEN TRUE
    ELSE IF phase = DEPRECATED THEN FALSE
    ELSE IF server_id \in bl[feature] THEN FALSE
    ELSE IF phase = BETA THEN server_id \in wl[feature]
    ELSE IF phase = GRADUAL
         THEN RolloutHash(seed, server_id, feature) < DictGet(pct, feature, 0)
    ELSE FALSE

can_use_feature(feature, server_id) ==
    CanUse(hash_seed, phase_config, rollout_percentages, whitelist, blacklist,
           feature, server_id)

\* StoatRolloutManager.__init__, restricted to Features. A missing whitelist or
\* blacklist key reads as the empty set everywhere (.get(feature, set())).
\* The dictionaries StoatRolloutManager.__init__ builds, in full.
DefaultPhaseConfig ==
    [f \in {"core_features", "verification", "moderation", "economy", "leveling",
            "tickets", "giveaways", "social_alerts", "ai_chat"} |->
        IF f \in {"core_features", "verification", "moderation"} THEN STABLE
        ELSE IF f \in {"economy", "leveling"} THEN GRADUAL
        ELSE IF f \in {"tickets", "giveaways"} THEN BETA
        ELSE INTERNAL]

DefaultRolloutPercentages ==
    [f \in {"economy", "leveling", "tickets", "giveaways", "social_alerts", "ai_chat"} |->
        IF f \in {"economy", "leveling"} THEN 50
        ELSE IF f \in {"tickets", "giveaways"} THEN 25
        ELSE IF f = "social_alerts" THEN 5
        ELSE 10]

FreshRegistry ==
    [phase_config |-> [f \in Features |-> DefaultPhaseConfig[f]],
     rollout_percentages |->
         [f \in Features \cap DOMAIN DefaultRolloutPercentages |->
             DefaultRolloutPercentages[f]],
     whitelist |-> [f \in Features |-> {}],
     blacklist |-> [f \in Features |-> {}]]

InitRegistry ==
    /\ phase_config = FreshRegistry.phase_config
    /\ rollout_percentages = FreshRegistry.rollout_percentages
    /\ whitelist = FreshRegistry.whitelist
    /\ blacklist = FreshRegistry.blacklist

set_phase(feature, phase) ==
    /\ phase_config' = DictSet(phase_config, feature, phase)
    /\ UNCHANGED <<hash_seed, rollout_percentages, whitelist, blacklist, db_vars, flags>>
    /\ observed' = NoObservation

\* The argument stored as given.
set_rollout_percentage_unclamped(feature, percentage) ==
    /\ rollout_percentages' = DictSet(rollout_percentages, feature, percentage)
    /\ UNCHANGED <<hash_seed, phase_config, whitelist, blacklist, db_vars, flags>>
    /\ observed' = NoObservation

set_rollout_percentage(feature, percentage) ==
    /\ rollout_percentages' =
           DictSet(rollout_percentages, feature, Max(0, Min(100, percentage)))
    /\ UNCHANGED <<hash_seed, phase_config, whitelist, blacklist, db_vars, flags>>
    /\ observed' = NoObservation

add_whitelist(feature, server_id) ==
    /\ whitelist' = [whitelist EXCEPT ![feature] = @ \cup {server_id}]
    /\ UNCHANGED <<hash_seed, phase_config, rollout_percentages, blacklist, db_vars, flags>>
    /\ observed' = NoObservation

remove_whitelist(feature, server_id) ==
    /\ whitelist' = [whitelist EXCEPT ![feature] = @ \ {server_id}]
    /\ UNCHANGED <<hash_seed, phase_config, rollout_percentages, blacklist, db_vars, flags>>
    /\ observed' = NoObservation

add_blacklist(feature, server_id) ==
    /\ blacklist' = [blacklist EXCEPT ![feature] = @ \cup {server_id}]
    /\ UNCHANGED <<hash_seed, phase_config, rollout_percentages, whitelist, db_vars, flags>>
    /\ observed' = NoObservation

remove_blacklist(feature, server_id) ==
    /\ blacklist' = [blacklist EXCEPT ![feature] = @ \ {server_id}]
    /\ UNCHANGED <<hash_seed, phase_config, rollout_percentages, whitelist, db_vars, flags>>
    /\ observed' = NoObservation

\* The configurations offered to import_config: 'phases' in document order,
\* with one string that is no RolloutPhase value among the strings.
ImportPhaseStrs == {BETA, "bogus"}

PhaseEntries == Features \X ImportPhaseStrs

PhaseLists ==
    {<<>>} \cup {<<e>> : e \in PhaseEntries}
           \cup {<<e1, e2>> : <<e1, e2>> \in
                    {p \in PhaseEntries \X PhaseEntries : p[1][1] # p[2][1]}}

\* The other sections: none, an out-of-range percentage, tenant lists, all three.
NoSection == <<>>
PctSection == [f \in {"economy"} |-> 150]
WlSection == [f \in {"economy"} |-> Tenants]
BlSection == [f \in {"moderation"} |-> {1}]

ImportSections ==
    {[percentages |-> NoSection,  whitelist |-> NoSection, blacklist |-> NoSection],
     [percentages |-> PctSection, whitelist |-> NoSection, blacklist |-> NoSection],
     [percentages |-> NoSection,  whitelist |-> WlSection, blacklist |-> BlSection],
     [percentages |-> PctSection, whitelist |-> WlSection, blacklist |-> BlSection]}

Configs ==
    {[phases |-> pl, percentages |-> s.percentages,
      whitelist |-> s.whitelist, blacklist |-> s.blacklist] :
        pl \in PhaseLists, s \in ImportSections}

\* The loop over config['phases']: RolloutPhase(phase_str) raises ValueError on
\* the first string that is no phase; assignments made before it stay.
RECURSIVE ImportPhases(_, _)
ImportPhases(pc, entries) ==
    IF entries = <<>> THEN [pc |-> pc, raised |-> FALSE]
    ELSE LET e == Head(entries) IN
         IF e[2] \notin RolloutPhase THEN [pc |-> pc, raised |-> TRUE]
         ELSE ImportPhases(DictSet(pc, e[1], e[2]), Tail(entries))

\* for feature, servers in section.items(): target[feature] = set(servers)
ImportSets(target, section) ==
    [f \in DOMAIN target |-> IF f \in DOMAIN section THEN section[f] ELSE target[f]]

\* import_config as a function of the registry it runs on: the registry it
\* leaves behind. The sections after 'phases' are reached only if no phase
\* string raised.
Imported(reg, config) ==
    LET r == ImportPhases(reg.phase_config, config.phases) IN
    IF r.raised
    THEN [reg EXCEPT !.phase_config = r.pc]
    ELSE [phase_config |-> r.pc,
          rollout_percentages |-> DictUpdate(reg.rollout_percentages, config.percentages),
          whitelist |-> ImportSets(reg.whitelist, config.whitelist),
          blacklist |-> ImportSets(reg.blacklist, config.blacklist)]

\* The registry as one record.
Registry ==
    [phase_config |-> phase_config, rollout_percentages |-> rollout_percentages,
     whitelist |-> whitelist, blacklist |-> blacklist]

import_config(config) ==
    LET r == ImportPhases(phase_config, config.phases) IN
    /\ phase_config' = r.pc
    /\ IF r.raised
       THEN UNCHANGED <<rollout_percentages, whitelist, blacklist>>
       ELSE /\ rollout_percentages' = DictUpdate(rollout_percentages, config.percentages)
            /\ whitelist' = ImportSets(whitelist, config.whitelist)
            /\ blacklist' = ImportSets(blacklist, config.blacklist)
    /\ UNCHANGED <<hash_seed, db_vars, flags>>
    /\ observed' = NoObservation

\* list(v) of a set: its elements once each, in some order.
SetToList(S) ==
    CHOOSE q \in [1..Cardinality(S) -> S] : {q[i] : i \in DOMAIN q} = S

\* dict.items() in some order, as (key, value) pairs.
Items(d) ==
    LET keys == SetToList(DOMAIN d) IN [i \in DOMAIN keys |-> <<keys[i], d[keys[i]]>>]

\* The snapshot with the blacklist section left out.
export_config_without_blacklist ==
    [phases |-> Items(phase_config),
     percentages |-> rollout_percentages,
     whitelist |-> [f \in DOMAIN whitelist |-> SetToList(whitelist[f])],
     blacklist |-> <<>>]

\* export_config: phases by value, percentages as they are, the server sets
\* as lists; 'exported_at' is not read by import_config.
export_config ==
    [phases |-> Items(phase_config),
     percentages |-> rollout_percentages,
     whitelist |-> [f \in DOMAIN whitelist |-> SetToList(whitelist[f])],
     blacklist |-> [f \in DOMAIN blacklist |-> SetToList(blacklist[f])]]

\* An exported snapshot as import_config reads it: each server list through
\* set(servers).
ServerSets(section) ==
    [f \in DOMAIN section |-> {section[f][i] : i \in DOMAIN section[f]}]

FromExport(exported) ==
    [phases |-> exported.phases,
     percentages |-> exported.percentages,
     whitelist |-> ServerSets(exported.whitelist),
     blacklist |-> ServerSets(exported.blacklist)]

----------------------------------------------------------------------------
(* utils/feature_flags.py *)

DISABLED == "disabled"
\* FeatureStatus.ENABLED
STATUS_ENABLED == "enabled"
FeatureStatus == {DISABLED, INTERNAL, BETA, GRADUAL, STATUS_ENABLED}

\* DEFAULT_FLAGS in full ('description' is not read by any decision).
DefaultFlagTable ==
    [f \in {"verification", "moderation", "economy", "leveling", "tickets",
            "giveaways", "social_alerts", "ai_chat"} |->
        IF f \in {"verification", "moderation"} THEN [status |-> STATUS_ENABLED, rollout |-> 100]
        ELSE IF f \in {"economy", "leveling"} THEN [status |-> GRADUAL, rollout |-> 50]
        ELSE IF f \in {"tickets", "giveaways"} THEN [status |-> BETA, rollout |-> 25]
        ELSE IF f = "social_alerts" THEN [status |-> INTERNAL, rollout |-> 5]
        ELSE [status |-> INTERNAL, rollout |-> 10]]

\* The entries of DEFAULT_FLAGS for the modelled features.
DEFAULT_FLAGS == [f \in Features |-> DefaultFlagTable[f]]

\* A name DEFAULT_FLAGS has no entry for.
FlagArgs == Features \cup {"core_features"}

InitFlags == flags = DEFAULT_FLAGS

\* is_enabled on the flags fl under hash key seed. Every status other than
\* disabled and enabled takes the hash-based branch.
IsEnabled(seed, fl, feature, server_id) ==
    IF feature \notin DOMAIN fl THEN FALSE
    ELSE LET flag == fl[feature]
             status == flag.status
         IN IF status = DISABLED THEN FALSE
            ELSE IF status = STATUS_ENABLED THEN TRUE
            ELSE IF server_id # NoServer
                 THEN RolloutHash(seed, server_id, feature) < flag.rollout
                 ELSE FALSE

is_enabled(feature, server_id) == IsEnabled(hash_seed, flags, feature, server_id)

\* DEFAULT_FLAGS.copy() copies the outer dictionary only: under each feature
\* the flags dictionary of every instance holds the very entry object that
\* DEFAULT_FLAGS holds, and set_status / set_rollout assign into that object.
\* flags is the content of those entry objects, named by their feature.
Instances == {"A", "B"}
EntryOf(instance, feature) == feature

\* self.flags of an instance, read through its entries.
FlagsOf(instance) == [f \in DOMAIN flags |-> flags[EntryOf(instance, f)]]

\* The class attribute DEFAULT_FLAGS, read through its entries.
ClassDefaults == [f \in DOMAIN flags |-> flags[f]]

\* is_feature_enabled reads the process-wide instance.
is_feature_enabled(feature, server_id) == is_enabled(feature, server_id)

set_status(feature, status) ==
    /\ flags' = IF feature \in DOMAIN flags
                THEN [flags EXCEPT ![feature].status = status]
                ELSE flags
    /\ observed' = NoObservation
    /\ UNCHANGED <<rollout_vars, db_vars>>

set_rollout(feature, percentage) ==
    /\ flags' = IF feature \in DOMAIN flags
                THEN [flags EXCEPT ![feature].rollout = Max(0, Min(100, percentage))]
                ELSE flags
    /\ observed' = NoObservation
    /\ UNCHANGED <<rollout_vars, db_vars>>

----------------------------------------------------------------------------
(* database/db_manager.py: the membership store of one guild *)

Users == {"u1", "u2"}
RoleIds == {"r1", "r2"}
Positions == 0..MaxPos
GuildId == "g1"

\* A guild document without an owner_id field reads None.
None == "None"
OwnerIds == Users \cup {None}

KICK_MEMBERS == "kick_members"
BAN_MEMBERS == "ban_members"

\* The 'permissions' lists update_member is offered.
PermissionLists == {{}, {KICK_MEMBERS}, {BAN_MEMBERS}}

get_member(user_id) == DictGet(members, user_id, None)
get_guild == DictGet(guild, GuildId, None)
get_role(role_id) == DictGet(roles, role_id, None)

MemberFound(user_id) == user_id \in DOMAIN members
GuildFound == GuildId \in DOMAIN guild
RoleFound(role_id) == role_id \in DOMAIN roles

\* The store of a guild the bot has not seen yet.
InitDb ==
    /\ members = <<>>
    /\ guild = <<>>
    /\ roles = <<>>

\* (guild_id, user_id) is a unique index: a second insert is refused.
create_member(user_id) ==
    /\ ~MemberFound(user_id)
    /\ members' = DictSet(members, user_id,
                          [roles |-> {}, is_admin |-> FALSE, is_mod |-> FALSE,
                           permissions |-> {}])
    /\ UNCHANGED <<guild, roles, rollout_vars, flag_vars>>

\* $set of one field; no document, no change.
update_member(user_id, field, value) ==
    /\ members' = IF MemberFound(user_id)
                  THEN [members EXCEPT ![user_id][field] = value]
                  ELSE members
    /\ UNCHANGED <<guild, roles, rollout_vars, flag_vars>>

add_member_role(user_id, role_id) ==
    /\ members' = IF MemberFound(user_id)
                  THEN [members EXCEPT ![user_id].roles = @ \cup {role_id}]
                  ELSE members
    /\ UNCHANGED <<guild, roles, rollout_vars, flag_vars>>

remove_member_role(user_id, role_id) ==
    /\ members' = IF MemberFound(user_id)
                  THEN [members EXCEPT ![user_id].roles = @ \ {role_id}]
                  ELSE members
    /\ UNCHANGED <<guild, roles, rollout_vars, flag_vars>>

create_guild(owner_id) ==
    /\ ~GuildFound
    /\ guild' = DictSet(guild, GuildId, [owner_id |-> owner_id])
    /\ UNCHANGED <<members, roles, rollout_vars, flag_vars>>

update_guild(owner_id) ==
    /\ guild' = IF GuildFound THEN [guild EXCEPT ![GuildId].owner_id = owner_id]
                ELSE guild
    /\ UNCHANGED <<members, roles, rollout_vars, flag_vars>>

\* get_role finds the first document of a role_id: a later create_role of the
\* same id changes nothing that is read.
create_role(role_id, position) ==
    /\ ~RoleFound(role_id)
    /\ roles' = DictSet(roles, role_id, [position |-> position])
    /\ UNCHANGED <<members, guild, rollout_vars, flag_vars>>

----------------------------------------------------------------------------
(* utils/rollout.py: reports *)

phase_order == <<INTERNAL, BETA, GRADUAL, STABLE>>

\* _get_next_phase: phase_order.index raises ValueError for a phase that is
\* not in the list, and the handler returns None.
get_next_phase(current) ==
    IF \E i \in DOMAIN phase_order : phase_order[i] = current
    THEN LET current_idx == CHOOSE i \in DOMAIN phase_order : phase_order[i] = current
         IN IF current_idx < Len(phase_order) THEN phase_order[current_idx + 1] ELSE None
    ELSE None

\* get_phase_progress: '.value' is read off _get_next_phase's result for every
\* phase but stable; on None that raises AttributeError, which nothing
\* catches.
get_phase_progress ==
    IF \E f \in DOMAIN phase_config :
           phase_config[f] # STABLE /\ get_next_phase(phase_config[f]) = None
    THEN [raised |-> TRUE, progress |-> <<>>]
    ELSE [raised |-> FALSE,
          progress |-> [f \in DOMAIN phase_config |->
                           [phase |-> phase_config[f],
                            next_phase |-> IF phase_config[f] # STABLE
                                           THEN get_next_phase(phase_config[f])
                                           ELSE None]]]

----------------------------------------------------------------------------
(* utils/permissions.py *)

Result(allowed, reason) == [allowed |-> allowed, reason |-> reason]

\* PermissionChecker.can_moderate
can_moderate(moderator_id, target_id) ==
    IF moderator_id = target_id
    THEN Result(FALSE, "You cannot moderate yourself")
    ELSE IF ~MemberFound(moderator_id)
    THEN Result(FALSE, "You have no permissions")
    ELSE IF ~(get_member(moderator_id).is_mod \/ get_member(moderator_id).is_admin)
    THEN Result(FALSE, "You are not a moderator or admin")
    ELSE IF GuildFound /\ get_guild.owner_id = target_id
    THEN Result(FALSE, "You cannot moderate the server owner")
    ELSE Result(TRUE, None)

\* The flags read in the other order.
get_permission_level_mod_first(user_id) ==
    IF GuildFound /\ get_guild.owner_id = user_id THEN 3
    ELSE IF ~MemberFound(user_id) THEN 0
    ELSE IF get_member(user_id).is_mod THEN 1
    ELSE IF get_member(user_id).is_admin THEN 2
    ELSE 0

\* PermissionChecker.get_permission_level
get_permission_level(user_id) ==
    IF GuildFound /\ get_guild.owner_id = user_id THEN 3
    ELSE IF ~MemberFound(user_id) THEN 0
    ELSE IF get_member(user_id).is_admin THEN 2
    ELSE IF get_member(user_id).is_mod THEN 1
    ELSE 0

\* The names has_permission is asked about: table keys as written, in other
\* letter case, and names the table does not have.
PermissionArgs ==
    {"ban_members", "BAN_MEMBERS", "Mute_Members", "send_messages", "fly", "Fly"}

\* str.lower() on those names.
lower(name) ==
    CASE name = "BAN_MEMBERS" -> "ban_members"
      [] name = "Mute_Members" -> "mute_members"
      [] name = "Fly" -> "fly"
      [] OTHER -> name

permissions_map ==
    [name \in {"ban_members", "kick_members", "manage_members", "manage_roles",
               "manage_channels", "manage_messages", "mute_members",
               "deafen_members", "send_messages", "read_messages"} |->
        IF name \in {"mute_members", "deafen_members"} THEN 1
        ELSE IF name \in {"send_messages", "read_messages"} THEN 0
        ELSE 2]

\* The name looked up as given.
has_permission_case_sensitive(user_id, permission) ==
    LET required_level == DictGet(permissions_map, permission, 0)
        user_level == get_permission_level(user_id)
    IN user_level >= required_level

\* A name the table does not have requires the owner.
has_permission_fail_closed(user_id, permission) ==
    LET required_level == DictGet(permissions_map, lower(permission), 3)
        user_level == get_permission_level(user_id)
    IN user_level >= required_level

\* PermissionChecker.has_permission
has_permission(user_id, permission) ==
    LET required_level == DictGet(permissions_map, lower(permission), 0)
        user_level == get_permission_level(user_id)
    IN user_level >= required_level

\* The comparison that also lets equal levels through.
check_hierarchy_or_equal(executor_id, target_id) ==
    get_permission_level(executor_id) >= get_permission_level(target_id)

\* PermissionChecker.check_hierarchy
check_hierarchy(executor_id, target_id) ==
    LET executor_level == get_permission_level(executor_id)
        target_level == get_permission_level(target_id)
    IN executor_level > target_level

\* is_admin (module level)
is_admin(user_id) ==
    IF ~MemberFound(user_id) THEN FALSE
    ELSE get_member(user_id).is_admin

\* The is_mod flag alone.
is_mod_flag_only(user_id) ==
    IF ~MemberFound(user_id) THEN FALSE
    ELSE get_member(user_id).is_mod

\* is_mod (module level)
is_mod(user_id) ==
    IF ~MemberFound(user_id) THEN FALSE
    ELSE get_member(user_id).is_mod \/ get_member(user_id).is_admin

----------------------------------------------------------------------------
(* adapters/stoat_permissions.py *)

SetMax(S) == CHOOSE x \in S : \A y \in S : y <= x

\* RoleHierarchy._get_top_role: the position of the highest role that
\* resolves, -1 when none does.
get_top_role(role_ids) ==
    LET found == {r \in role_ids : RoleFound(r)} IN
    IF found = {} THEN [position |-> -1]
    ELSE [position |-> SetMax({get_role(r).position : r \in found})]

\* RoleHierarchy._check_permission
check_member_permission(user_id, permission) ==
    /\ MemberFound(user_id)
    /\ \/ get_member(user_id).is_admin
       \/ permission \in get_member(user_id).permissions

\* PermissionChecker.check_permission (the adapter's class)
check_permission(user_id, permission) ==
    IF ~MemberFound(user_id) THEN FALSE
    ELSE IF get_member(user_id).is_admin THEN TRUE
    ELSE permission \in get_member(user_id).permissions

\* The permission lists the combinators are offered.
PermissionSeqs ==
    UNION {[1..n -> {KICK_MEMBERS, BAN_MEMBERS}] : n \in 0..MaxPermList}

\* Every permission of the list checked, whatever the earlier answers.
RECURSIVE check_any_permission_exhaustive(_, _)
check_any_permission_exhaustive(user_id, permissions) ==
    IF permissions = <<>> THEN [result |-> FALSE, calls |-> 0]
    ELSE LET rest == check_any_permission_exhaustive(user_id, Tail(permissions)) IN
         [result |-> check_permission(user_id, Head(permissions)) \/ rest.result,
          calls |-> rest.calls + 1]

\* check_any_permission: the answer, and the number of check_permission calls
\* the loop makes before it returns.
RECURSIVE check_any_permission(_, _)
check_any_permission(user_id, permissions) ==
    IF permissions = <<>> THEN [result |-> FALSE, calls |-> 0]
    ELSE IF check_permission(user_id, Head(permissions))
    THEN [result |-> TRUE, calls |-> 1]
    ELSE LET rest == check_any_permission(user_id, Tail(permissions)) IN
         [result |-> rest.result, calls |-> rest.calls + 1]

RECURSIVE check_all_permissions(_, _)
check_all_permissions(user_id, permissions) ==
    IF permissions = <<>> THEN [result |-> TRUE, calls |-> 0]
    ELSE IF ~check_permission(user_id, Head(permissions))
    THEN [result |-> FALSE, calls |-> 1]
    ELSE LET rest == check_all_permissions(user_id, Tail(permissions)) IN
         [result |-> rest.result, calls |-> rest.calls + 1]

\* RoleHierarchy.can_moderate_member without the test for the owner as target.
can_moderate_member_owner_unprotected(moderator_id, target_id) ==
    IF moderator_id = target_id THEN Result(FALSE, "Cannot moderate yourself")
    ELSE IF ~MemberFound(moderator_id) \/ ~MemberFound(target_id)
    THEN Result(FALSE, "Member not found")
    ELSE IF ~GuildFound THEN Result(FALSE, "Permission check failed")
    ELSE IF moderator_id = get_guild.owner_id THEN Result(TRUE, None)
    ELSE IF ~( check_member_permission(moderator_id, KICK_MEMBERS)
               \/ check_member_permission(moderator_id, BAN_MEMBERS) )
    THEN Result(FALSE, "You don't have permission to moderate")
    ELSE IF get_top_role(get_member(moderator_id).roles).position
              <= get_top_role(get_member(target_id).roles).position
    THEN Result(FALSE, "Target has equal or higher role")
    ELSE Result(TRUE, None)

\* RoleHierarchy.can_moderate_member with the owner tested before the self test.
can_moderate_member_owner_first(moderator_id, target_id) ==
    IF GuildFound /\ moderator_id = get_guild.owner_id THEN Result(TRUE, None)
    ELSE IF moderator_id = target_id THEN Result(FALSE, "Cannot moderate yourself")
    ELSE can_moderate_member_owner_unprotected(moderator_id, target_id)

\* RoleHierarchy.can_moderate_member. guild.get on a guild that was not found
\* raises AttributeError, which the handler turns into a denial.
can_moderate_member(moderator_id, target_id) ==
    IF moderator_id = target_id THEN Result(FALSE, "Cannot moderate yourself")
    ELSE IF ~MemberFound(moderator_id) \/ ~MemberFound(target_id)
    THEN Result(FALSE, "Member not found")
    ELSE IF ~GuildFound THEN Result(FALSE, "Permission check failed")
    ELSE IF moderator_id = get_guild.owner_id THEN Result(TRUE, None)
    ELSE IF target_id = get_guild.owner_id
    THEN Result(FALSE, "Cannot moderate server owner")
    ELSE IF ~( check_member_permission(moderator_id, KICK_MEMBERS)
               \/ check_member_permission(moderator_id, BAN_MEMBERS) )
    THEN Result(FALSE, "You don't have permission to moderate")
    ELSE IF get_top_role(get_member(moderator_id).roles).position
              <= get_top_role(get_member(target_id).roles).position
    THEN Result(FALSE, "Target has equal or higher role")
    ELSE Result(TRUE, None)

\* RoleHierarchy.can_manage_role
can_manage_role(executor_id, target_role_id) ==
    IF ~MemberFound(executor_id) \/ ~RoleFound(target_role_id) THEN FALSE
    ELSE IF ~GuildFound THEN FALSE
    ELSE IF executor_id = get_guild.owner_id THEN TRUE
    ELSE IF get_member(executor_id).is_admin
    THEN get_top_role(get_member(executor_id).roles).position
             > get_role(target_role_id).position
    ELSE FALSE

----------------------------------------------------------------------------
(* Evaluations whose lookups may raise. Each evaluator makes its lookups   *)
(* inside one try block whose handler returns the denial; fault is the     *)
(* position, among the lookups of the run, of the one that raises (0 when  *)
(* none does).                                                             *)

Lookup(op, arg) == [op |-> op, arg |-> arg]

\* The lookups PermissionChecker.can_moderate makes when none raises.
can_moderate_lookups(moderator_id, target_id) ==
    IF moderator_id = target_id THEN <<>>
    ELSE IF ~MemberFound(moderator_id)
            \/ ~(get_member(moderator_id).is_mod \/ get_member(moderator_id).is_admin)
    THEN <<Lookup("get_member", moderator_id)>>
    ELSE <<Lookup("get_member", moderator_id), Lookup("get_guild", GuildId)>>

\* The get_role calls of _get_top_role, one per role id.
get_top_role_lookups(role_ids) ==
    LET ids == SetToList(role_ids) IN [i \in DOMAIN ids |-> Lookup("get_role", ids[i])]

\* The lookups RoleHierarchy.can_moderate_member makes when none raises:
\* both members and the guild first, the moderator again for each of the two
\* _check_permission calls, then the roles of both.
can_moderate_member_lookups(moderator_id, target_id) ==
    LET first == <<Lookup("get_member", moderator_id), Lookup("get_member", target_id),
                   Lookup("get_guild", GuildId)>>
        checks == <<Lookup("get_member", moderator_id), Lookup("get_member", moderator_id)>>
    IN IF moderator_id = target_id THEN <<>>
       ELSE IF ~MemberFound(moderator_id) \/ ~MemberFound(target_id) THEN first
       ELSE IF ~GuildFound THEN first
       ELSE IF moderator_id = get_guild.owner_id \/ target_id = get_guild.owner_id
       THEN first
       ELSE IF ~( check_member_permission(moderator_id, KICK_MEMBERS)
                  \/ check_member_permission(moderator_id, BAN_MEMBERS) )
       THEN first \o checks
       ELSE first \o checks \o get_top_role_lookups(get_member(moderator_id).roles)
                \o get_top_role_lookups(get_member(target_id).roles)

\* The lookup of PermissionChecker.check_permission.
check_permission_lookups(user_id) == <<Lookup("get_member", user_id)>>

\* A handler that makes the failed lookup once more before it gives up.
TryWithRetry(lookups, fault, value, denial) ==
    IF fault \in DOMAIN lookups
    THEN [value |-> denial, raised |-> FALSE,
          lookups |-> Append(SubSeq(lookups, 1, fault), lookups[fault])]
    ELSE [value |-> value, raised |-> FALSE, lookups |-> lookups]

\* try: ... except Exception: return denial. The run ends at the lookup that
\* raises; the handler logs and returns.
Try(lookups, fault, value, denial) ==
    IF fault \in DOMAIN lookups
    THEN [value |-> denial, raised |-> FALSE, lookups |-> SubSeq(lookups, 1, fault)]
    ELSE [value |-> value, raised |-> FALSE, lookups |-> lookups]

can_moderate_run(moderator_id, target_id, fault) ==
    Try(can_moderate_lookups(moderator_id, target_id), fault,
        can_moderate(moderator_id, target_id),
        Result(FALSE, "Permission check failed"))

can_moderate_member_run(moderator_id, target_id, fault) ==
    Try(can_moderate_member_lookups(moderator_id, target_id), fault,
        can_moderate_member(moderator_id, target_id),
        Result(FALSE, "Permission check failed"))

check_permission_run(user_id, permission, fault) ==
    Try(check_permission_lookups(user_id), fault,
        check_permission(user_id, permission), FALSE)

\* The most lookups one evaluation makes: five of members and guild, and the
\* roles of two members.
MaxLookups == 5 + 2 * Cardinality(RoleIds)

----------------------------------------------------------------------------
(* The store is empty and untouched while the registry is explored. *)

InitRollout ==
    /\ hash_seed \in Seeds
    /\ InitRegistry
    /\ InitDb
    /\ InitFlags
    /\ observed = NoObservation

NextRollout ==
    \/ \E config \in Configs : import_config(config)
    \/ \E f \in Features, ph \in RolloutPhase : set_phase(f, ph)
    \/ \E f \in Features, x \in PctInputs : set_rollout_percentage(f, x)
    \/ \E f \in WhitelistFeatures, t \in Tenants : add_whitelist(f, t)
    \/ \E f \in WhitelistFeatures, t \in Tenants : remove_whitelist(f, t)
    \/ \E f \in Features, t \in Tenants : add_blacklist(f, t)
    \/ \E f \in Features, t \in Tenants : remove_blacklist(f, t)

RolloutSpec == InitRollout /\ [][NextRollout]_vars

----------------------------------------------------------------------------
(* The registry stays as constructed while the store is explored. *)

InitPerm ==
    /\ hash_seed = 0
    /\ InitRegistry
    /\ InitDb
    /\ InitFlags
    /\ observed = NoObservation

NextPerm ==
    \/ \E u \in Users : create_member(u)
    \/ \E u \in Users, b \in BOOLEAN : update_member(u, "is_admin", b)
    \/ \E u \in Users, b \in BOOLEAN : update_member(u, "is_mod", b)
    \/ \E u \in Users, ps \in PermissionLists : update_member(u, "permissions", ps)
    \/ \E u \in Users, r \in RoleIds : add_member_role(u, r)
    \/ \E u \in Users, r \in RoleIds : remove_member_role(u, r)
    \/ \E o \in OwnerIds : create_guild(o)
    \/ \E o \in OwnerIds : update_guild(o)
    \/ \E r \in RoleIds, p \in Positions : create_role(r, p)

PermSpec == InitPerm /\ [][NextPerm]_vars

----------------------------------------------------------------------------
(* The feature flags beside the registry's percentages. *)

InitFlagsSpec ==
    /\ hash_seed \in Seeds
    /\ InitRegistry
    /\ InitDb
    /\ InitFlags
    /\ observed = NoObservation

NextFlags ==
    \/ \E f \in FlagArgs, st \in FeatureStatus : set_status(f, st)
    \/ \E f \in FlagArgs, x \in PctInputs : set_rollout(f, x)
    \/ \E f \in Features, x \in PctInputs : set_rollout_percentage(f, x)

FlagsSpec == InitFlagsSpec /\ [][NextFlags]_vars

----------------------------------------------------------------------------
(* Evaluations interleaved with management. An evaluation reads the        *)
(* registry, the flags and the hash key and assigns none of them; the      *)
(* first decision since the last management operation is kept in observed. *)

Observe(evaluator, feature, server_id, result) ==
    IF observed = NoObservation
    THEN [evaluator |-> evaluator, feature |-> feature,
          server_id |-> server_id, result |-> result]
    ELSE observed

\* The hash key drawn anew at each evaluation.
evaluate_can_use_feature_rehashed(feature, server_id) ==
    /\ observed' = Observe("can_use_feature", feature, server_id,
                           can_use_feature(feature, server_id))
    /\ hash_seed' = (hash_seed + 1) % (MaxSeed + 1)
    /\ UNCHANGED <<registry, db_vars, flags>>

evaluate_can_use_feature(feature, server_id) ==
    /\ observed' = Observe("can_use_feature", feature, server_id,
                           can_use_feature(feature, server_id))
    /\ UNCHANGED <<rollout_vars, db_vars, flags>>

evaluate_is_feature_enabled(feature, server_id) ==
    /\ observed' = Observe("is_feature_enabled", feature, server_id,
                           is_feature_enabled(feature, server_id))
    /\ UNCHANGED <<rollout_vars, db_vars, flags>>

InitEval ==
    /\ hash_seed \in Seeds
    /\ InitRegistry
    /\ InitDb
    /\ InitFlags
    /\ observed = NoObservation

NextEval ==
    \/ \E f \in Features, t \in Tenants : evaluate_can_use_feature(f, t)
    \/ \E f \in FlagArgs, t \in ServerArgs : evaluate_is_feature_enabled(f, t)
    \/ \E f \in Features, ph \in RolloutPhase : set_phase(f, ph)
    \/ \E f \in Features, x \in PctInputs : set_rollout_percentage(f, x)
    \/ \E f \in FlagArgs, st \in FeatureStatus : set_status(f, st)

EvalSpec == InitEval /\ [][NextEval]_vars

----------------------------------------------------------------------------
(* Evaluations interleaved with every management operation of the registry. *)
(* can_use_feature awaits nothing and the management operations are plain   *)
(* methods, so on the event loop each runs to its return before another     *)
(* starts: one step each.                                                   *)

NextInterleaved ==
    \/ \E config \in Configs : import_config(config)
    \/ \E f \in Features, t \in Tenants : evaluate_can_use_feature(f, t)
    \/ \E f \in Features, ph \in RolloutPhase : set_phase(f, ph)
    \/ \E f \in Features, x \in PctInputs : set_rollout_percentage(f, x)
    \/ \E f \in WhitelistFeatures, t \in Tenants : add_whitelist(f, t)
    \/ \E f \in WhitelistFeatures, t \in Tenants : remove_whitelist(f, t)
    \/ \E f \in Features, t \in Tenants : add_blacklist(f, t)
    \/ \E f \in Features, t \in Tenants : remove_blacklist(f, t)

InterleavedSpec == InitRollout /\ [][NextInterleaved]_vars

----------------------------------------------------------------------------
(* Rollout controller: properties *)

PhaseOf(f) == DictGet(phase_config, f, INTERNAL)
PercentageOf(f) == DictGet(rollout_percentages, f, 0)

\* C1. Blacklist precedence: in every reachable registry state a tenant in a
\* feature's blacklist is denied that feature, whatever the feature's phase,
\* whitelist or percentage.
BlacklistPrecedence ==
    \A f \in Features, t \in Tenants :
        t \in blacklist[f] => ~can_use_feature(f, t)

HasInvalidPhase(config) ==
    \E i \in 1..Len(config.phases) : config.phases[i][2] \notin RolloutPhase

\* C2. Atomic import: an import_config whose 'phases' hold a string that is no
\* phase leaves phases, percentages, whitelists and blacklists as they were.
ImportIsAtomic ==
    [][\A config \in Configs :
          (HasInvalidPhase(config) /\ import_config(config)) => UNCHANGED registry]_vars

\* C3. Sticky cohort across restarts: the decision for every feature and tenant
\* is the same in every process, i.e. under every string-hash key, for the same
\* registry contents.
StickyCohort ==
    \A s \in Seeds, f \in Features, t \in Tenants :
        CanUse(s, phase_config, rollout_percentages, whitelist, blacklist, f, t)
            = can_use_feature(f, t)

\* C9. Monotonicity: when a step raises the percentage of a feature that is
\* gradual before and after it and leaves the feature's blacklist alone, every
\* tenant that could use the feature before the step can still use it after.
Monotonicity ==
    [][\A f \in Features, t \in Tenants :
          ( /\ PhaseOf(f) = GRADUAL
            /\ PhaseOf(f)' = GRADUAL
            /\ blacklist'[f] = blacklist[f]
            /\ PercentageOf(f)' > PercentageOf(f)
            /\ can_use_feature(f, t) )
          => can_use_feature(f, t)']_vars

\* A gradual feature whose percentage was raised from its default of 50 to 60,
\* with a tenant whose bucket is below 50: enabled before the raise and after it.
MonotonicityWitness ==
    \E t \in Tenants :
        /\ PhaseOf("economy") = GRADUAL
        /\ PercentageOf("economy") = 60
        /\ RolloutHash(hash_seed, t, "economy") < 50
        /\ can_use_feature("economy", t)

\* The override chain of the specification, first match wins.
ReferenceChain(f, t) ==
    IF t \in blacklist[f] THEN FALSE
    ELSE IF PhaseOf(f) = DEPRECATED THEN FALSE
    ELSE IF PhaseOf(f) = STABLE THEN TRUE
    ELSE IF PhaseOf(f) = BETA THEN t \in whitelist[f]
    ELSE IF PhaseOf(f) = GRADUAL THEN RolloutHash(hash_seed, t, f) < PercentageOf(f)
    ELSE FALSE

\* C10. can_use_feature decides as the reference chain does: blacklist, then
\* deprecated, stable, beta by whitelist, gradual by bucket, internal.
MatchesReferenceChain ==
    \A f \in Features, t \in Tenants :
        can_use_feature(f, t) = ReferenceChain(f, t)

----------------------------------------------------------------------------
(* Hierarchy guard: properties *)

IsOwner(user_id) == GuildFound /\ get_guild.owner_id = user_id

TopPosition(user_id) == get_top_role(get_member(user_id).roles).position

\* C4. Owner supremacy: when the guild record exists, its owner may moderate
\* every other user under both moderation checks, whatever the flags,
\* permissions and roles of either, with or without a member record.
OwnerSupremacy ==
    \A a \in Users, b \in Users :
        (IsOwner(a) /\ b # a)
            => /\ can_moderate(a, b).allowed
               /\ can_moderate_member(a, b).allowed

\* C5. Tie-break: two distinct members, neither the owner, whose top roles have
\* the same position cannot moderate each other under either check.
TieBreakDenies ==
    \A a \in Users, b \in Users :
        ( /\ a # b
          /\ MemberFound(a) /\ MemberFound(b)
          /\ ~IsOwner(a) /\ ~IsOwner(b)
          /\ TopPosition(a) = TopPosition(b) )
            => /\ ~can_moderate(a, b).allowed
               /\ ~can_moderate_member(a, b).allowed

\* C6. NotFound is deny: a missing member record of the actor or the target, a
\* missing target role or a missing guild record makes every evaluator deny.
NotFoundIsDeny ==
    /\ \A a \in Users, b \in Users :
          (~MemberFound(a) \/ ~MemberFound(b) \/ ~GuildFound)
              => /\ ~can_moderate(a, b).allowed
                 /\ ~can_moderate_member(a, b).allowed
    /\ \A a \in Users, r \in RoleIds :
          (~MemberFound(a) \/ ~RoleFound(r) \/ ~GuildFound)
              => ~can_manage_role(a, r)

\* C7. Self-moderation is always denied, with the self-action reason, in every
\* state of the member and guild data.
SelfModerationDenied ==
    \A a \in Users :
        /\ can_moderate(a, a) = Result(FALSE, "You cannot moderate yourself")
        /\ can_moderate_member(a, a) = Result(FALSE, "Cannot moderate yourself")

\* The owner, recorded as an admin member, asks to moderate itself and is denied.
SelfModerationWitness ==
    \E a \in Users :
        /\ IsOwner(a)
        /\ MemberFound(a)
        /\ get_member(a).is_admin
        /\ ~can_moderate(a, a).allowed
        /\ ~can_moderate_member(a, a).allowed

\* C8. The owner is protected: an actor who is not the owner is denied by both
\* moderation checks when the target is the owner.
OwnerProtected ==
    \A a \in Users, b \in Users :
        (IsOwner(b) /\ ~IsOwner(a))
            => /\ ~can_moderate(a, b).allowed
               /\ ~can_moderate_member(a, b).allowed

\* An admin whose top role is above the owner's is denied with the owner reasons.
OwnerProtectedWitness ==
    \E a \in Users, b \in Users :
        /\ IsOwner(b) /\ ~IsOwner(a)
        /\ MemberFound(a) /\ MemberFound(b)
        /\ get_member(a).is_admin
        /\ TopPosition(a) > TopPosition(b)
        /\ can_moderate(a, b) = Result(FALSE, "You cannot moderate the server owner")
        /\ can_moderate_member(a, b) = Result(FALSE, "Cannot moderate server owner")

----------------------------------------------------------------------------
(* Phases and statuses: properties *)

\* flag.get('status', FeatureStatus.DISABLED) of a flag that exists.
StatusOf(f) == flags[f].status

\* C11. Internal is closed: while a feature is internal, the registry's
\* can_use_feature and the flags' is_enabled / is_feature_enabled are false
\* for every tenant, whatever the rollout percentage.
InternalIsClosed ==
    \A f \in Features, t \in Tenants :
        /\ PhaseOf(f) = INTERNAL => ~can_use_feature(f, t)
        /\ StatusOf(f) = INTERNAL =>
               (~is_enabled(f, t) /\ ~is_feature_enabled(f, t))

\* C12. Beta is whitelist-only: while a feature is beta, a tenant is enabled
\* exactly when it is in the feature's whitelist and not blacklisted, whatever
\* the rollout percentage, for can_use_feature and for is_enabled alike.
BetaIsWhitelistOnly ==
    \A f \in Features, t \in Tenants :
        /\ PhaseOf(f) = BETA =>
               (can_use_feature(f, t) <=> (t \in whitelist[f] /\ t \notin blacklist[f]))
        /\ StatusOf(f) = BETA =>
               (is_enabled(f, t) <=> (t \in whitelist[f] /\ t \notin blacklist[f]))

\* C13. Gradual boundaries: every (tenant, feature) bucket lies in 0..99; a
\* gradual feature at percentage 0 is denied to every tenant, and at
\* percentage 100 it is granted to every tenant that is not blacklisted.
GradualBoundaries ==
    \A f \in Features, t \in Tenants :
        /\ RolloutHash(hash_seed, t, f) \in 0..99
        /\ (PhaseOf(f) = GRADUAL /\ PercentageOf(f) = 0) => ~can_use_feature(f, t)
        /\ (PhaseOf(f) = GRADUAL /\ PercentageOf(f) = 100 /\ t \notin blacklist[f])
               => can_use_feature(f, t)

\* A gradual feature at 100 grants a tenant whose bucket 60 percent left out.
GradualBoundariesWitness ==
    \E f \in Features, t \in Tenants :
        /\ PhaseOf(f) = GRADUAL
        /\ PercentageOf(f) = 100
        /\ RolloutHash(hash_seed, t, f) >= 60
        /\ can_use_feature(f, t)

\* C15. Deprecated is a sink: once a feature is deprecated, no management
\* operation moves it to another phase.
DeprecatedIsSink ==
    [][\A f \in Features : PhaseOf(f) = DEPRECATED => PhaseOf(f)' = DEPRECATED]_vars

\* C17. Percentage invariant: in every reachable registry state every stored
\* rollout percentage lies in 0..100.
PercentageInRange ==
    \A f \in DOMAIN rollout_percentages : rollout_percentages[f] \in 0..100

\* The nearest value of 0..100.
Clamp(x) == IF x < 0 THEN 0 ELSE IF x > 100 THEN 100 ELSE x

\* C16. Clamping: after set_rollout_percentage(f, x) the stored percentage of
\* f is x clamped to 0..100, for x below, inside and above the range; after
\* set_rollout(f, x) on a known flag so is the flag's rollout.
ClampsPercentage ==
    [][\A f \in Features, x \in PctInputs :
          /\ set_rollout_percentage(f, x) => rollout_percentages'[f] = Clamp(x)
          /\ set_rollout(f, x) => flags'[f].rollout = Clamp(x)]_vars

\* An argument above the range has been stored as 100 in the registry and one
\* below it as 0 in the flags.
ClampsPercentageWitness ==
    /\ PercentageOf("economy") = 100
    /\ flags["economy"].rollout = 0

\* C14. Determinism within a run: the decision observed for a (tenant,
\* feature) pair is the decision a further call for that pair returns, as
\* long as no management operation has come between, whatever other pairs
\* were evaluated meanwhile.
DeterministicWithinRun ==
    /\ observed.evaluator = "can_use_feature" =>
           can_use_feature(observed.feature, observed.server_id) = observed.result
    /\ observed.evaluator = "is_feature_enabled" =>
           is_feature_enabled(observed.feature, observed.server_id) = observed.result

\* A hash-bucketed decision has been observed: a gradual feature granted to a
\* tenant at a percentage below 100.
DeterministicWithinRunWitness ==
    /\ observed.evaluator = "can_use_feature"
    /\ observed.result
    /\ PhaseOf(observed.feature) = GRADUAL
    /\ PercentageOf(observed.feature) < 100

----------------------------------------------------------------------------
(* Permission levels: properties *)

\* C18. Permission levels: the guild owner has level 3 with or without a
\* member record and whatever its flags; any other user has 2 if is_admin is
\* set (is_mod set or not), else 1 if is_mod is set, else 0, and 0 without a
\* member record; the level is always one of 0, 1, 2, 3.
PermissionLevels ==
    \A u \in Users :
        LET level == get_permission_level(u) IN
        /\ level \in 0..3
        /\ IsOwner(u) => level = 3
        /\ (~IsOwner(u) /\ ~MemberFound(u)) => level = 0
        /\ (~IsOwner(u) /\ MemberFound(u)) =>
               level = (IF members[u].is_admin THEN 2
                        ELSE IF members[u].is_mod THEN 1 ELSE 0)

\* The owner has no member record, and another user carries both flags.
PermissionLevelsWitness ==
    \E u \in Users, v \in Users :
        /\ IsOwner(u) /\ ~MemberFound(u)
        /\ ~IsOwner(v) /\ MemberFound(v)
        /\ members[v].is_admin /\ members[v].is_mod

\* The level of the table's key that equals the name up to letter case.
TableLevel(name) ==
    LET key == CHOOSE k \in DOMAIN permissions_map : lower(k) = lower(name)
    IN permissions_map[key]

NamedPermissions == {name \in PermissionArgs : lower(name) \in DOMAIN permissions_map}

\* C19. has_permission is the level comparison: for a name of the table in
\* any letter case, a user holds it exactly when the user's level is at least
\* the level the table gives the name; so a user of no lower level holds it
\* too, and the owner holds every named permission.
HasPermissionIffLevel ==
    \A u \in Users, name \in NamedPermissions :
        /\ has_permission(u, name) <=> get_permission_level(u) >= TableLevel(name)
        /\ \A v \in Users :
               (has_permission(u, name)
                    /\ get_permission_level(v) >= get_permission_level(u))
                   => has_permission(v, name)
        /\ IsOwner(u) => has_permission(u, name)

\* A moderator holds a level-1 name and lacks a level-2 name, both asked in
\* other letter case than the table's.
HasPermissionIffLevelWitness ==
    \E u \in Users :
        /\ get_permission_level(u) = 1
        /\ has_permission(u, "Mute_Members")
        /\ ~has_permission(u, "BAN_MEMBERS")

\* C20. Fail-open on unknown names: a name the table does not have is held
\* by every user, with or without a member record, with or without a guild
\* record.
FailOpenOnUnknown ==
    \A u \in Users, name \in PermissionArgs \ NamedPermissions :
        has_permission(u, name)

\* No guild record, a user without a member record beside one with a record.
FailOpenOnUnknownWitness ==
    \E u \in Users, v \in Users :
        /\ ~GuildFound
        /\ ~MemberFound(u) /\ MemberFound(v)
        /\ has_permission(u, "fly") /\ has_permission(v, "Fly")

----------------------------------------------------------------------------
(* Role management, combinators and levels: properties *)

\* C21. can_manage_role: for a role that exists, the guild owner is allowed
\* whatever the owner's member record, flags and roles; any other actor is
\* allowed exactly when the actor is an admin whose top role is strictly
\* above the target role.
ManageRoleRule ==
    \A u \in Users, r \in RoleIds :
        RoleFound(r) =>
            /\ IsOwner(u) => can_manage_role(u, r)
            /\ ~IsOwner(u) =>
                   (can_manage_role(u, r) <=>
                        /\ MemberFound(u)
                        /\ members[u].is_admin
                        /\ TopPosition(u) > roles[r].position)

\* The least index among hits, the length of the list when there is none.
FirstIndex(list, hits) ==
    IF hits = {} THEN Len(list) ELSE CHOOSE i \in hits : \A j \in hits : i <= j

\* C22. Combinators: check_any_permission is true exactly when some listed
\* permission checks true and makes no call after the first true one (false
\* on the empty list); check_all_permissions is true exactly when every listed
\* permission checks true and makes no call after the first false one (true
\* on the empty list).
CombinatorsShortCircuit ==
    \A u \in Users, ps \in PermissionSeqs :
        LET granted == {i \in DOMAIN ps : check_permission(u, ps[i])}
            refused == DOMAIN ps \ granted
            any == check_any_permission(u, ps)
            all == check_all_permissions(u, ps)
        IN /\ any.result <=> granted # {}
           /\ any.calls = FirstIndex(ps, granted)
           /\ all.result <=> refused = {}
           /\ all.calls = FirstIndex(ps, refused)

\* A member holding only ban_members: 'any' stops at its first element when
\* that is ban_members, 'all' stops at its first element when that is
\* kick_members.
CombinatorsShortCircuitWitness ==
    \E u \in Users :
        /\ MemberFound(u) /\ ~members[u].is_admin
        /\ members[u].permissions = {BAN_MEMBERS}
        /\ check_any_permission(u, <<BAN_MEMBERS, KICK_MEMBERS>>)
               = [result |-> TRUE, calls |-> 1]
        /\ check_all_permissions(u, <<KICK_MEMBERS, BAN_MEMBERS>>)
               = [result |-> FALSE, calls |-> 1]

\* C25. check_hierarchy is the strict order of levels: it is true exactly
\* when the executor's level is above the target's, hence false for equal
\* levels and for a user against itself, and never true both ways.
HierarchyIsStrict ==
    \A e \in Users, t \in Users :
        /\ check_hierarchy(e, t) <=> get_permission_level(e) > get_permission_level(t)
        /\ get_permission_level(e) = get_permission_level(t) => ~check_hierarchy(e, t)
        /\ ~check_hierarchy(e, e)
        /\ ~(check_hierarchy(e, t) /\ check_hierarchy(t, e))

\* Two moderators: neither is above the other.
HierarchyIsStrictWitness ==
    \E e \in Users, t \in Users :
        /\ e # t
        /\ get_permission_level(e) = 1 /\ get_permission_level(t) = 1
        /\ ~check_hierarchy(e, t) /\ ~check_hierarchy(t, e)

\* C26. is_admin is true exactly for a member whose is_admin flag is set;
\* is_mod exactly for a member whose is_mod or is_admin flag is set; so
\* is_admin implies is_mod, and both are false without a member record.
AdminImpliesMod ==
    \A u \in Users :
        /\ is_admin(u) <=> (MemberFound(u) /\ members[u].is_admin)
        /\ is_mod(u) <=> (MemberFound(u) /\ (members[u].is_mod \/ members[u].is_admin))
        /\ is_admin(u) => is_mod(u)
        /\ ~MemberFound(u) => (~is_admin(u) /\ ~is_mod(u))

\* An admin whose is_mod flag is not set counts as a moderator.
AdminImpliesModWitness ==
    \E u \in Users :
        /\ MemberFound(u)
        /\ members[u].is_admin /\ ~members[u].is_mod
        /\ is_mod(u)

----------------------------------------------------------------------------
(* Registry reports and snapshots: properties *)

\* C29. get_phase_progress succeeds in every reachable registry state: it
\* returns without raising one entry per registered feature, whose next_phase
\* is the phase after the feature's in internal, beta, gradual, stable, and
\* none for stable and for deprecated.
PhaseProgressSucceeds ==
    LET r == get_phase_progress IN
    /\ ~r.raised
    /\ DOMAIN r.progress = DOMAIN phase_config
    /\ \A f \in DOMAIN r.progress :
           r.progress[f].next_phase =
               (CASE phase_config[f] = INTERNAL -> BETA
                  [] phase_config[f] = BETA -> GRADUAL
                  [] phase_config[f] = GRADUAL -> STABLE
                  [] OTHER -> None)

\* C30. Export/import round trip: in every reachable registry state,
\* importing the registry's own export leaves phases, percentages, whitelists
\* and blacklists as they are, and importing it into a freshly constructed
\* registry makes that registry decide can_use_feature as this one does, for
\* every feature and tenant.
ExportImportRoundTrip ==
    LET config == FromExport(export_config)
        copy == Imported(FreshRegistry, config)
    IN /\ Imported(Registry, config) = Registry
       /\ \A f \in Features, t \in Tenants :
              CanUse(hash_seed, copy.phase_config, copy.rollout_percentages,
                     copy.whitelist, copy.blacklist, f, t)
                  = can_use_feature(f, t)

\* A registry that differs from a fresh one in every section, with a tenant
\* the blacklist alone keeps out of a gradual feature.
ExportImportRoundTripWitness ==
    /\ PhaseOf("moderation") = GRADUAL
    /\ PercentageOf("moderation") = 100
    /\ whitelist["economy"] # {}
    /\ \E t \in Tenants : t \in blacklist["moderation"] /\ ~can_use_feature("moderation", t)

----------------------------------------------------------------------------
(* The two registries side by side: properties *)

\* The feature names either constructor knows.
KnownFeatures == DOMAIN DefaultPhaseConfig \cup DOMAIN DefaultFlagTable

\* C27. The two registries agree: as constructed, for every feature name
\* known to either and every tenant, the flags' is_enabled gives the rollout
\* manager's can_use_feature decision.
RegistriesAgree ==
    \A f \in KnownFeatures, t \in Tenants :
        IsEnabled(hash_seed, DefaultFlagTable, f, t)
            = CanUse(hash_seed, DefaultPhaseConfig, DefaultRolloutPercentages,
                     [g \in KnownFeatures |-> {}], [g \in KnownFeatures |-> {}], f, t)

\* C28. Registries are isolated: a set_status or set_rollout on instance A
\* changes neither a stored value or decision of a separately constructed
\* instance B nor the class-level defaults later instances are built from.
RegistriesIsolated ==
    [][\A f \in Features :
          ( (\E st \in FeatureStatus : set_status(f, st))
            \/ (\E x \in PctInputs : set_rollout(f, x)) )
          => /\ FlagsOf("B")' = FlagsOf("B")
             /\ ClassDefaults' = ClassDefaults
             /\ \A g \in Features, t \in Tenants :
                    IsEnabled(hash_seed, FlagsOf("B"), g, t)'
                        = IsEnabled(hash_seed, FlagsOf("B"), g, t)]_vars

----------------------------------------------------------------------------
(* Evaluations beside mutations: properties *)

\* What an evaluation of feature f reads in registry reg.
FeatureConfig(reg, f) ==
    [phase |-> DictGet(reg.phase_config, f, INTERNAL),
     percentage |-> DictGet(reg.rollout_percentages, f, 0),
     whitelist |-> reg.whitelist[f],
     blacklist |-> reg.blacklist[f]]

\* The registry with every update a configuration carries applied.
WhollyApplied(reg, config) ==
    Imported(reg, [config EXCEPT
                      !.phases = SelectSeq(config.phases,
                                           LAMBDA e : e[2] \in RolloutPhase)])

\* C23. Atomic reads: what an evaluation reads of a feature after an
\* import_config is the feature's configuration from before the import or
\* the one with all of the import's updates applied, never one with only
\* part of them.
AtomicReads ==
    [][\A config \in Configs :
          import_config(config) =>
              \A f \in Features :
                  FeatureConfig(Registry, f)' \in
                      {FeatureConfig(Registry, f),
                       FeatureConfig(WhollyApplied(Registry, config), f)}]_vars

----------------------------------------------------------------------------
(* Failing lookups: properties *)

\* A run that ends without raising, after the faulty lookup and no other.
EndsAtFault(run, fault) ==
    /\ ~run.raised
    /\ Len(run.lookups) = fault

\* C24. Failing lookups: when a lookup of an evaluation raises, can_moderate
\* and can_moderate_member return (false, reason) and check_permission
\* returns false, none raises, and no lookup follows the failed one.
FailingLookupsDeny ==
    \A m \in Users, t \in Users, fault \in 1..MaxLookups :
        /\ fault \in DOMAIN can_moderate_lookups(m, t) =>
               LET run == can_moderate_run(m, t, fault) IN
               EndsAtFault(run, fault) /\ ~run.value.allowed
        /\ fault \in DOMAIN can_moderate_member_lookups(m, t) =>
               LET run == can_moderate_member_run(m, t, fault) IN
               EndsAtFault(run, fault) /\ ~run.value.allowed
        /\ fault \in DOMAIN check_permission_lookups(m) =>
               LET run == check_permission_run(m, KICK_MEMBERS, fault) IN
               EndsAtFault(run, fault) /\ ~run.value

\* A moderation that is allowed when every lookup answers and denied when
\* its last role lookup raises.
FailingLookupsDenyWitness ==
    \E m \in Users, t \in Users :
        LET lookups == can_moderate_member_lookups(m, t) IN
        /\ Len(lookups) > 5
        /\ can_moderate_member_run(m, t, 0).value.allowed
        /\ ~can_moderate_member_run(m, t, Len(lookups)).value.allowed

====
